---- MODULE Spec2Model ----
(***************************************************************************)
(* Model of the ZLEMA / Bollinger signal pipeline                           *)
(* (zlema_bbands_trading.py, candle_helpers.py, candle_evaluator.py) and    *)
(* of the dashboard driver that feeds it (app.py).                          *)
(*                                                                         *)
(* Numbers.  Prices and indicator values are integers in hundredths of a   *)
(* price unit (100.00 is 10000).  pct_dynamic and the other ratios of      *)
(* compute_adaptive_pct are integers in units of 1/10000 (0.002 is 20).    *)
(* The float comparisons of the pattern predicates (x / R >= 0.33, ...)    *)
(* are written cross-multiplied, which is exact on these integers.         *)
(* Divisions round down where the float code rounds to nearest.            *)
(* NaN is a sentinel outside every value range; every comparison with it   *)
(* is false and every arithmetic result of it is NaN, as for IEEE NaN.     *)
(***************************************************************************)
EXTENDS Integers, Sequences, FiniteSets, TLC

VARIABLES
    df,            \* the frame a pipeline run works on: [columns, rows]
    phase,         \* phase string given to the run (sequence of characters)
    trend,         \* trend string given to the run (sequence of characters)
    pc,            \* position of the run in the pipeline
    now,           \* wall clock, in hours
    market,        \* the exchange's hourly candles so far (index = open_time)
    symbol_data,   \* st.session_state["symbol_data"]: symbol -> series
    last_signal,   \* st.session_state["last_signal"]: symbol -> memo
    active_coins,  \* st.session_state["active_coins"]
    settings,      \* st.session_state[f"{s}_phase"/"_trend"]: symbol -> record
    todo,          \* symbols the running analysis has still to process
    df_new,        \* what fetch_klines returned to the running get_symbol_data
    fetch,         \* a call of _fetch_impl: its position, locals and effects
    results,       \* the results list of the analysis, kept as the summary
    notifier       \* alerts the running analysis handed to send_telegram_alert

vars == <<df, phase, trend, pc, now, market, symbol_data, last_signal,
          active_coins, settings, todo, df_new, fetch, results, notifier>>

appVars == <<now, market, symbol_data, last_signal, active_coins, settings,
             todo, df_new, fetch, results, notifier>>

-----------------------------------------------------------------------------
(* Numbers with NaN *)

NaN == -1073741824

IsNum(x) == x # NaN

Lt(a, b) == IsNum(a) /\ IsNum(b) /\ a < b
Le(a, b) == IsNum(a) /\ IsNum(b) /\ a <= b
Ge(a, b) == IsNum(a) /\ IsNum(b) /\ a >= b

Add(a, b) == IF IsNum(a) /\ IsNum(b) THEN a + b ELSE NaN
Sub(a, b) == IF IsNum(a) /\ IsNum(b) THEN a - b ELSE NaN

Abs(x) == IF x < 0 THEN -x ELSE x
Min2(a, b) == IF a <= b THEN a ELSE b
Max2(a, b) == IF a >= b THEN a ELSE b

-----------------------------------------------------------------------------
(* Strings whose letter case matters are sequences of one-character     *)
(* strings, so that upper(), lower() and strip() are computed.           *)

LowerLetters == <<"a","b","c","d","e","h","i","l","r","s","t","u","w","x","y","z">>
UpperLetters == <<"A","B","C","D","E","H","I","L","R","S","T","U","W","X","Y","Z">>

LetterIndex(letters, c) ==
    IF \E i \in DOMAIN letters : letters[i] = c
    THEN CHOOSE i \in DOMAIN letters : letters[i] = c
    ELSE 0

upper(s) ==
    [i \in DOMAIN s |->
        IF LetterIndex(LowerLetters, s[i]) # 0
        THEN UpperLetters[LetterIndex(LowerLetters, s[i])]
        ELSE s[i]]

lower(s) ==
    [i \in DOMAIN s |->
        IF LetterIndex(UpperLetters, s[i]) # 0
        THEN LowerLetters[LetterIndex(UpperLetters, s[i])]
        ELSE s[i]]

RECURSIVE lstrip(_)
lstrip(s) == IF s # <<>> /\ Head(s) = " " THEN lstrip(Tail(s)) ELSE s

RECURSIVE rstrip(_)
rstrip(s) ==
    IF s # <<>> /\ s[Len(s)] = " " THEN rstrip(SubSeq(s, 1, Len(s) - 1)) ELSE s

strip(s) == rstrip(lstrip(s))

S_TTR      == <<"T","T","R">>
S_BTR      == <<"B","T","R">>
S_SIDEWAYS == <<"S","I","D","E","W","A","Y","S">>
S_bullish  == <<"b","u","l","l","i","s","h">>
S_bearish  == <<"b","e","a","r","i","s","h">>
S_sideways == <<"s","i","d","e","w","a","y","s">>

-----------------------------------------------------------------------------
(* Frames *)

RawColumns == {"open_time", "open", "high", "low", "close", "volume"}
IndicatorColumns == {"zlema", "upper_band", "lower_band", "atr"}
ZoneColumns == {"buy_zone_low", "buy_zone_high", "sell_zone_low", "sell_zone_high"}

\* A row with the candle's fields and every later column still absent.
RawRow(t, c) ==
    [open_time |-> t, open |-> c.open, high |-> c.high, low |-> c.low,
     close |-> c.close, volume |-> c.volume,
     zlema |-> NaN, upper_band |-> NaN, lower_band |-> NaN, atr |-> NaN,
     pct_dynamic |-> NaN,
     zlema_4h |-> NaN, upper_band_4h |-> NaN, lower_band_4h |-> NaN,
     buy_zone_low |-> NaN, buy_zone_high |-> NaN,
     sell_zone_low |-> NaN, sell_zone_high |-> NaN,
     entry_signal |-> "", reason |-> ""]

EmptyFrame == [columns |-> {}, rows |-> <<>>]

\* df.iloc[idx] with the 0-based index of the code
Iloc(rows, idx) == rows[idx + 1]

\* row.get(col, default)
RowGet(frame, idx, col, default) ==
    IF col \in frame.columns THEN Iloc(frame.rows, idx)[col] ELSE default

Candle(o, h, l, c) == [open |-> o, high |-> h, low |-> l, close |-> c, volume |-> 1]

-----------------------------------------------------------------------------
(* candle_helpers.py *)

get_candle_color(O, C, tr, is_in_buy_zone, is_in_sell_zone) ==
    IF C > O THEN "green"
    ELSE IF C < O THEN "red"
    ELSE IF tr = S_bullish THEN "green"
    ELSE IF tr = S_bearish THEN "red"
    ELSE IF tr = S_sideways /\ is_in_buy_zone THEN "green"
    ELSE IF tr = S_sideways /\ is_in_sell_zone THEN "red"
    ELSE "neutral"

\* lines 52-74 with the two wicks exchanged
wick_rejection_buy_SwappedWicks(O, H, L, C) ==
    LET R == H - L
        body == Abs(C - O)
        lower_wick == Min2(O, C) - L
        upper_wick == H - Max2(O, C)
    IN  /\ ~(R <= 0)
        /\ ~(1000 * R < 5 * C)
        /\ 100 * upper_wick >= 33 * R
        /\ 10 * body >= 4 * R
        /\ 4 * lower_wick <= R
        /\ C > O

wick_rejection_buy(O, H, L, C) ==
    LET R == H - L
        body == Abs(C - O)
        lower_wick == Min2(O, C) - L
        upper_wick == H - Max2(O, C)
    IN  /\ ~(R <= 0)
        /\ ~(1000 * R < 5 * C)
        /\ 100 * lower_wick >= 33 * R
        /\ 10 * body >= 4 * R
        /\ 4 * upper_wick <= R
        /\ C > O

\* any(np.isnan([O, H, L, C, U])): the candle is finite, U may be NaN
wick_rejection_sell(O, H, L, C, U) ==
    LET R == H - L
        body == Abs(O - C)
        upper_wick == H - Max2(O, C)
        lower_wick == Min2(O, C) - L
    IN  /\ ~(R <= 0 \/ ~IsNum(U))
        /\ ~(1000 * R < 5 * C)
        /\ 100 * upper_wick >= 33 * R
        /\ 10 * body >= 4 * R
        /\ 4 * lower_wick <= R
        /\ C < O

RECURSIVE BodySum(_, _, _)
\* sum of |close - open| over the rows lo .. hi-1 (0-based), i.e. iloc[lo:hi]
BodySum(rows, lo, hi) ==
    IF lo >= hi THEN 0
    ELSE Abs(Iloc(rows, lo).close - Iloc(rows, lo).open) + BodySum(rows, lo + 1, hi)

\* body_size >= 1.2 * body_avg, body_avg the mean over the 10 rows before idx
BodyAtLeast12Avg(rows, idx, body_size) ==
    100 * body_size >= 12 * BodySum(rows, idx - 10, idx)

strong_buy(rows, idx) ==
    IF idx < 10 THEN FALSE
    ELSE LET O == Iloc(rows, idx).open
             C == Iloc(rows, idx).close
         IN  (C > O) /\ BodyAtLeast12Avg(rows, idx, Abs(C - O))

\* lines 115-121 without the test of the direction
strong_sell_AnyDirection(rows, idx) ==
    IF idx < 10 THEN FALSE
    ELSE LET O == Iloc(rows, idx).open
             C == Iloc(rows, idx).close
         IN  BodyAtLeast12Avg(rows, idx, Abs(C - O))

strong_sell(rows, idx) ==
    IF idx < 10 THEN FALSE
    ELSE LET O == Iloc(rows, idx).open
             C == Iloc(rows, idx).close
         IN  (C < O) /\ BodyAtLeast12Avg(rows, idx, Abs(C - O))

is_morning_star(rows, idx) ==
    IF idx < 10 THEN FALSE
    ELSE LET c1 == Iloc(rows, idx - 2)
             c2 == Iloc(rows, idx - 1)
             c3 == Iloc(rows, idx)
             body1 == Abs(c1.open - c1.close)
             strong_sell_first ==
                 /\ c1.close < c1.open
                 /\ BodyAtLeast12Avg(rows, idx, body1)
                 /\ 4 * (c1.close - c1.low) <= (c1.high - c1.low)
             R2 == c2.high - c2.low
             small_body == R2 > 0 /\ 10 * Abs(c2.close - c2.open) < 3 * R2
             bullish_third ==
                 c3.close > c3.open /\ 2 * c3.close > c1.open + c1.close
         IN  strong_sell_first /\ small_body /\ bullish_third

is_evening_star(rows, idx) ==
    IF idx < 10 THEN FALSE
    ELSE LET c1 == Iloc(rows, idx - 2)
             c2 == Iloc(rows, idx - 1)
             c3 == Iloc(rows, idx)
             body1 == Abs(c1.open - c1.close)
             strong_buy_first ==
                 /\ c1.close > c1.open
                 /\ BodyAtLeast12Avg(rows, idx, body1)
                 /\ 4 * (c1.high - c1.close) <= (c1.high - c1.low)
             R2 == c2.high - c2.low
             small_body == R2 > 0 /\ 10 * Abs(c2.close - c2.open) < 3 * R2
             bearish_third ==
                 c3.close < c3.open /\ 2 * c3.close < c1.open + c1.close
         IN  strong_buy_first /\ small_body /\ bearish_third

exists_color_in_lookback_WithCurrent(frame, idx, lookback, color, tr) ==
    LET start == Max2(0, idx - lookback)
    IN  \E j \in start .. idx :
            LET r == Iloc(frame.rows, j)
                is_in_buy_zone ==
                    /\ {"buy_zone_low", "buy_zone_high"} \subseteq frame.columns
                    /\ Le(r.buy_zone_low, r.close) /\ Le(r.close, r.buy_zone_high)
                is_in_sell_zone ==
                    /\ {"sell_zone_low", "sell_zone_high"} \subseteq frame.columns
                    /\ Le(r.sell_zone_low, r.close) /\ Le(r.close, r.sell_zone_high)
            IN  get_candle_color(r.open, r.close, tr, is_in_buy_zone, is_in_sell_zone)
                    = color

exists_color_in_lookback(frame, idx, lookback, color, tr) ==
    LET start == Max2(0, idx - lookback)
    IN  \E j \in start .. (idx - 1) :
            LET r == Iloc(frame.rows, j)
                is_in_buy_zone ==
                    /\ {"buy_zone_low", "buy_zone_high"} \subseteq frame.columns
                    /\ Le(r.buy_zone_low, r.close) /\ Le(r.close, r.buy_zone_high)
                is_in_sell_zone ==
                    /\ {"sell_zone_low", "sell_zone_high"} \subseteq frame.columns
                    /\ Le(r.sell_zone_low, r.close) /\ Le(r.close, r.sell_zone_high)
            IN  get_candle_color(r.open, r.close, tr, is_in_buy_zone, is_in_sell_zone)
                    = color

-----------------------------------------------------------------------------
(* zlema_bbands_trading.py: compute_indicators, compute_adaptive_pct,      *)
(* compute_4h_overlay                                                       *)

MIN_PCT == 20
MAX_PCT == 180
BASE_SCALE_DIV == 4
EMA_SPAN == 8
W_ATR_DIV == 4
SPAN == 16
ATR_WINDOW == 14
GROUP_SIZE == 4

\* lag = int((span - 1) / 2)
Lag(span) == (span - 1) \div 2

\* n / d rounded to the nearest integer (d > 0)
RoundDiv(n, d) == (2 * n + d) \div (2 * d)

RECURSIVE SqrtBetween(_, _, _)
\* the largest r in lo .. hi with r * r <= n
SqrtBetween(n, lo, hi) ==
    IF lo >= hi THEN lo
    ELSE LET mid == (lo + hi + 1) \div 2
         IN  IF mid * mid <= n THEN SqrtBetween(n, mid, hi)
                               ELSE SqrtBetween(n, lo, mid - 1)

Sqrt(n) == SqrtBetween(n, 0, Min2(n, 46340))

RECURSIVE EwmFrom(_, _, _)
\* Series.ewm(span=span, adjust=False).mean(): NaN up to the first number,
\* then y = (1 - a) * y + a * x with a = 2 / (span + 1); a NaN keeps y
EwmFrom(xs, span, acc) ==
    IF Len(acc) = Len(xs) THEN acc
    ELSE LET x == xs[Len(acc) + 1]
             prev == IF acc = <<>> THEN NaN ELSE acc[Len(acc)]
             y == IF ~IsNum(prev) THEN x
                  ELSE IF ~IsNum(x) THEN prev
                  ELSE RoundDiv((span - 1) * prev + 2 * x, span + 1)
         IN  EwmFrom(xs, span, Append(acc, y))

Ewm(xs, span) == EwmFrom(xs, span, <<>>)

\* Series.shift(k)
Shift(xs, k) == [i \in DOMAIN xs |-> IF i - k >= 1 THEN xs[i - k] ELSE NaN]

RECURSIVE SumOver(_, _, _)
SumOver(xs, lo, hi) == IF lo > hi THEN 0 ELSE xs[lo] + SumOver(xs, lo + 1, hi)

RECURSIVE SumSqDev(_, _, _, _)
SumSqDev(xs, lo, hi, m) ==
    IF lo > hi THEN 0
    ELSE (xs[lo] - m) * (xs[lo] - m) + SumSqDev(xs, lo + 1, hi, m)

\* rolling(window=w, min_periods=2).std(): defined as soon as two values
\* of the window are numbers
RollingStd_MinPeriods(xs, w) ==
    [i \in DOMAIN xs |->
        LET lo == Max2(1, i - w + 1)
            first == CHOOSE j \in lo .. (i + 1) :
                        /\ j = i + 1 \/ IsNum(xs[j])
                        /\ \A k \in lo .. (j - 1) : ~IsNum(xs[k])
        IN  IF first < i /\ \A j \in first .. i : IsNum(xs[j])
            THEN LET n == i - first + 1
                     m == RoundDiv(SumOver(xs, first, i), n)
                 IN  Sqrt(SumSqDev(xs, first, i, m) \div (n - 1))
            ELSE NaN]

\* Series.rolling(window=w).std(): the sample deviation (ddof = 1) of the w
\* values ending at i, NaN unless all w are numbers
RollingStd(xs, w) ==
    [i \in DOMAIN xs |->
        IF i - w + 1 >= 1 /\ \A j \in (i - w + 1) .. i : IsNum(xs[j])
        THEN LET m == RoundDiv(SumOver(xs, i - w + 1, i), w)
             IN  Sqrt(SumSqDev(xs, i - w + 1, i, m) \div (w - 1))
        ELSE NaN]

\* Series.rolling(window=w).mean()
RollingMean(xs, w) ==
    [i \in DOMAIN xs |->
        IF i - w + 1 >= 1 /\ \A j \in (i - w + 1) .. i : IsNum(xs[j])
        THEN RoundDiv(SumOver(xs, i - w + 1, i), w)
        ELSE NaN]

\* close + (close - close.shift(lag)), then ewm(span).mean()
Zlema(close, span) ==
    Ewm([i \in DOMAIN close |->
            Add(close[i], Sub(close[i], Shift(close, Lag(span))[i]))], span)

Column(rows, col) == [i \in DOMAIN rows |-> rows[i][col]]

\* pd.concat([...], axis=1).max(axis=1) skips the NaN of the first row
TrueRange(rows) ==
    [i \in DOMAIN rows |->
        LET r == rows[i]
            hl == r.high - r.low
        IN  IF i = 1 THEN hl
            ELSE Max2(hl, Max2(Abs(r.high - rows[i - 1].close),
                               Abs(r.low - rows[i - 1].close)))]

\* lines 37-38 with the two bands exchanged
compute_indicators_SwappedBands(frame) ==
    LET zl == Zlema(Column(frame.rows, "close"), SPAN)
        std == RollingStd(zl, SPAN)
        atr == RollingMean(TrueRange(frame.rows), ATR_WINDOW)
    IN  [columns |-> frame.columns \cup IndicatorColumns,
         rows |-> [i \in DOMAIN frame.rows |->
            [frame.rows[i] EXCEPT
                !.zlema = zl[i],
                !.upper_band = IF IsNum(std[i]) THEN zl[i] - 2 * std[i] ELSE NaN,
                !.lower_band = IF IsNum(std[i]) THEN zl[i] + 2 * std[i] ELSE NaN,
                !.atr = atr[i]]]]

compute_indicators(frame) ==
    LET zl == Zlema(Column(frame.rows, "close"), SPAN)
        std == RollingStd(zl, SPAN)
        atr == RollingMean(TrueRange(frame.rows), ATR_WINDOW)
    IN  [columns |-> frame.columns \cup IndicatorColumns,
         rows |-> [i \in DOMAIN frame.rows |->
            [frame.rows[i] EXCEPT
                !.zlema = zl[i],
                !.upper_band = IF IsNum(std[i]) THEN zl[i] + 2 * std[i] ELSE NaN,
                !.lower_band = IF IsNum(std[i]) THEN zl[i] - 2 * std[i] ELSE NaN,
                !.atr = atr[i]]]]

\* num / den as a ratio in 1/10000; the frames of this model never divide
\* by a zero trend line (ZlemaNeverZero)
Ratio(num, den) ==
    IF IsNum(num) /\ IsNum(den) /\ den # 0 THEN (num * 10000) \div den ELSE NaN

\* Series.clip(lower, upper); NaN stays NaN
Clip(x, lo, hi) == IF ~IsNum(x) THEN NaN ELSE Max2(lo, Min2(hi, x))

RECURSIVE BfillFrom(_, _)
\* Series.bfill(): each NaN takes the next number after it, if there is one
BfillFrom(xs, i) ==
    IF i > Len(xs) THEN NaN
    ELSE IF IsNum(xs[i]) THEN xs[i]
    ELSE BfillFrom(xs, i + 1)

\* lines 72-87 without the band-relative cap of line 83
PctDynamic_NoCap(raw, scaled, smoothed, atr_component) ==
    LET base == IF IsNum(scaled) /\ IsNum(smoothed) /\ IsNum(atr_component)
                THEN (6 * scaled + 4 * smoothed) \div 10 + atr_component
                ELSE NaN
        clipped == Clip(base, MIN_PCT, MAX_PCT)
    IN  IF IsNum(clipped) /\ IsNum(raw) THEN Max2(clipped, MIN_PCT) ELSE NaN

\* lines 72-87 without the floor of line 86
PctDynamic_NoFloor(raw, scaled, smoothed, atr_component) ==
    LET base == IF IsNum(scaled) /\ IsNum(smoothed) /\ IsNum(atr_component)
                THEN (6 * scaled + 4 * smoothed) \div 10 + atr_component
                ELSE NaN
        clipped == Clip(base, MIN_PCT, MAX_PCT)
    IN  IF IsNum(clipped) /\ IsNum(raw)
        THEN Min2(clipped, (6 * raw) \div 10)
        ELSE NaN

\* lines 72-87 for one row: the weighted sum, the clip, the band-relative cap
\* (np.minimum keeps NaN) and the floor
PctDynamic(raw, scaled, smoothed, atr_component) ==
    LET base == IF IsNum(scaled) /\ IsNum(smoothed) /\ IsNum(atr_component)
                THEN (6 * scaled + 4 * smoothed) \div 10 + atr_component
                ELSE NaN
        clipped == Clip(base, MIN_PCT, MAX_PCT)
        capped == IF IsNum(clipped) /\ IsNum(raw)
                  THEN Min2(clipped, (6 * raw) \div 10)
                  ELSE NaN
    IN  IF IsNum(capped) THEN Max2(capped, MIN_PCT) ELSE NaN

compute_adaptive_pct(frame) ==
    LET rows == frame.rows
        raw == [i \in DOMAIN rows |->
                   Ratio(Sub(rows[i].upper_band, rows[i].lower_band), rows[i].zlema)]
        scaled == [i \in DOMAIN rows |->
                   IF IsNum(raw[i]) THEN raw[i] \div BASE_SCALE_DIV ELSE NaN]
        smoothed == Ewm(scaled, EMA_SPAN)
        atrc == [i \in DOMAIN rows |->
                   LET q == Ratio(rows[i].atr, rows[i].zlema)
                   IN  IF IsNum(q) THEN q \div W_ATR_DIV ELSE NaN]
        pct == [i \in DOMAIN rows |-> PctDynamic(raw[i], scaled[i], smoothed[i], atrc[i])]
    IN  [columns |-> frame.columns \cup {"pct_dynamic"},
         rows |-> [i \in DOMAIN rows |->
            [rows[i] EXCEPT !.pct_dynamic =
                LET b == BfillFrom(pct, i)
                IN  IF IsNum(b) THEN b ELSE MIN_PCT]]]

GroupCount(n) == (n + GROUP_SIZE - 1) \div GROUP_SIZE

RECURSIVE MaxHigh(_, _, _)
MaxHigh(rows, lo, hi) ==
    IF lo = hi THEN rows[lo].high ELSE Max2(rows[lo].high, MaxHigh(rows, lo + 1, hi))

RECURSIVE MinLow(_, _, _)
MinLow(rows, lo, hi) ==
    IF lo = hi THEN rows[lo].low ELSE Min2(rows[lo].low, MinLow(rows, lo + 1, hi))

RECURSIVE SumVolume(_, _, _)
SumVolume(rows, lo, hi) ==
    IF lo > hi THEN 0 ELSE rows[lo].volume + SumVolume(rows, lo + 1, hi)

\* df.groupby(floor(index / 4)).agg(first, max, min, last, sum): the 4H
\* candles, the last one from however many rows are left
Aggregate4h(rows) ==
    [g \in 1 .. GroupCount(Len(rows)) |->
        LET lo == GROUP_SIZE * (g - 1) + 1
            hi == Min2(Len(rows), GROUP_SIZE * g)
        IN  [open |-> rows[lo].open,
             high |-> MaxHigh(rows, lo, hi),
             low |-> MinLow(rows, lo, hi),
             close |-> rows[hi].close,
             volume |-> SumVolume(rows, lo, hi)]]

OverlayColumns == {"zlema_4h", "upper_band_4h", "lower_band_4h"}

\* lines 117-147 with the groupby keeping full groups only: the rows of a
\* trailing group of fewer than 4 rows find no 4H candle in the merge
compute_4h_overlay_FullGroupsOnly(frame) ==
    LET rows == frame.rows
        full == Len(rows) \div GROUP_SIZE
        close4h == Column(SubSeq(Aggregate4h(rows), 1, full), "close")
        zl == Zlema(close4h, SPAN)
        std == RollingStd(zl, SPAN)
        groupOf(i) == ((i - 1) \div GROUP_SIZE) + 1
    IN  [columns |-> frame.columns \cup OverlayColumns,
         rows |-> [i \in DOMAIN rows |->
            LET g == groupOf(i)
            IN  IF g > full
                THEN [rows[i] EXCEPT !.zlema_4h = NaN, !.upper_band_4h = NaN,
                                     !.lower_band_4h = NaN]
                ELSE [rows[i] EXCEPT
                    !.zlema_4h = zl[g],
                    !.upper_band_4h = IF IsNum(std[g]) THEN zl[g] + 2 * std[g] ELSE NaN,
                    !.lower_band_4h = IF IsNum(std[g]) THEN zl[g] - 2 * std[g] ELSE NaN]]]

compute_4h_overlay(frame) ==
    LET rows == frame.rows
        close4h == Column(Aggregate4h(rows), "close")
        zl == Zlema(close4h, SPAN)
        std == RollingStd(zl, SPAN)
        groupOf(i) == ((i - 1) \div GROUP_SIZE) + 1
    IN  [columns |-> frame.columns \cup OverlayColumns,
         rows |-> [i \in DOMAIN rows |->
            LET g == groupOf(i)
            IN  [rows[i] EXCEPT
                    !.zlema_4h = zl[g],
                    !.upper_band_4h = IF IsNum(std[g]) THEN zl[g] + 2 * std[g] ELSE NaN,
                    !.lower_band_4h = IF IsNum(std[g]) THEN zl[g] - 2 * std[g] ELSE NaN]]]

-----------------------------------------------------------------------------
(* zlema_bbands_trading.py: apply_zones, validate_trend *)

\* band * (1 + pct) and band * (1 - pct), pct in 1/10000
ScaleUp(band, pct) ==
    IF IsNum(band) /\ IsNum(pct) THEN (band * (10000 + pct)) \div 10000 ELSE NaN
ScaleDown(band, pct) ==
    IF IsNum(band) /\ IsNum(pct) THEN (band * (10000 - pct)) \div 10000 ELSE NaN

\* what a call of apply_zones surfaces to the operator: lines 177-216 hold
\* no print, warnings.warn, logging or st.warning call on any path
apply_zones_warnings(frame, ph, tr) == <<>>

apply_zones_SwappedBands(frame, ph, tr) ==
    LET phase_norm == upper(strip(ph))
        cleared == [i \in DOMAIN frame.rows |->
                      [frame.rows[i] EXCEPT !.buy_zone_low = NaN,
                                            !.buy_zone_high = NaN,
                                            !.sell_zone_low = NaN,
                                            !.sell_zone_high = NaN]]
        pctOf(r) == IF "pct_dynamic" \in frame.columns THEN r.pct_dynamic ELSE MIN_PCT
    IN  IF phase_norm \in {S_BTR, S_SIDEWAYS}
        THEN [columns |-> frame.columns \cup ZoneColumns \cup {"pct_dynamic"},
              rows |-> [i \in DOMAIN frame.rows |->
                 LET r == frame.rows[i] IN
                 [r EXCEPT !.pct_dynamic = pctOf(r),
                           !.buy_zone_low = ScaleDown(r.upper_band, pctOf(r)),
                           !.buy_zone_high = ScaleUp(r.upper_band, pctOf(r)),
                           !.sell_zone_low = ScaleDown(r.lower_band, pctOf(r)),
                           !.sell_zone_high = ScaleUp(r.lower_band, pctOf(r))]]]
        ELSE [columns |-> frame.columns \cup ZoneColumns, rows |-> cleared]

apply_zones_TtrGetsZones(frame, ph, tr) ==
    LET pctOf(r) == IF "pct_dynamic" \in frame.columns THEN r.pct_dynamic ELSE MIN_PCT
    IN  [columns |-> frame.columns \cup ZoneColumns \cup {"pct_dynamic"},
         rows |-> [i \in DOMAIN frame.rows |->
            LET r == frame.rows[i] IN
            [r EXCEPT !.pct_dynamic = pctOf(r),
                      !.buy_zone_low = ScaleDown(r.lower_band, pctOf(r)),
                      !.buy_zone_high = ScaleUp(r.lower_band, pctOf(r)),
                      !.sell_zone_low = ScaleDown(r.upper_band, pctOf(r)),
                      !.sell_zone_high = ScaleUp(r.upper_band, pctOf(r))]]]

apply_zones(frame, ph, tr) ==
    LET phase_norm == upper(strip(ph))
        cleared == [i \in DOMAIN frame.rows |->
                      [frame.rows[i] EXCEPT !.buy_zone_low = NaN,
                                            !.buy_zone_high = NaN,
                                            !.sell_zone_low = NaN,
                                            !.sell_zone_high = NaN]]
        pctOf(r) == IF "pct_dynamic" \in frame.columns THEN r.pct_dynamic ELSE MIN_PCT
    IN  IF phase_norm = S_TTR
        THEN [columns |-> frame.columns \cup ZoneColumns, rows |-> cleared]
        ELSE IF phase_norm \in {S_BTR, S_SIDEWAYS}
        THEN [columns |-> frame.columns \cup ZoneColumns \cup {"pct_dynamic"},
              rows |-> [i \in DOMAIN frame.rows |->
                 LET r == frame.rows[i] IN
                 [r EXCEPT !.pct_dynamic = pctOf(r),
                           !.buy_zone_low = ScaleDown(r.lower_band, pctOf(r)),
                           !.buy_zone_high = ScaleUp(r.lower_band, pctOf(r)),
                           !.sell_zone_low = ScaleDown(r.upper_band, pctOf(r)),
                           !.sell_zone_high = ScaleUp(r.upper_band, pctOf(r))]]]
        ELSE [columns |-> frame.columns \cup ZoneColumns, rows |-> cleared]

validate_trend(tr) ==
    LET t == lower(strip(tr))
    IN  IF t \notin {S_bullish, S_bearish, S_sideways} THEN S_sideways ELSE t

-----------------------------------------------------------------------------
(* candle_evaluator.py *)

LOOKBACK_CANDLES_COLOR == 4

NONE == "None"

RECURSIVE Join(_)
\* "+".join(reasons)
Join(reasons) ==
    IF reasons = <<>> THEN ""
    ELSE IF Len(reasons) = 1 THEN reasons[1]
    ELSE reasons[1] \o "+" \o Join(Tail(reasons))

\* the reasons list: the star pattern, then the wick, then the strong candle
Reasons(star_ok, star, wick_ok, strong_ok, strong) ==
    (IF star_ok THEN <<star>> ELSE <<>>)
    \o (IF wick_ok THEN <<"wick_rejection">> ELSE <<>>)
    \o (IF strong_ok THEN <<strong>> ELSE <<>>)

Out(signal, reason) == [entry_signal |-> signal, reason |-> reason]

\* lines 83-121: the zone logic of every phase that is not TTR
evaluate_zones(tr, idx, frame) ==
    LET row == Iloc(frame.rows, idx)
        O == row.open
        H == row.high
        L == row.low
        C == row.close
        U == RowGet(frame, idx, "upper_band", NaN)
        Lo == RowGet(frame, idx, "lower_band", NaN)
        B_low == RowGet(frame, idx, "buy_zone_low", Lo)
        B_high == RowGet(frame, idx, "buy_zone_high", Lo)
        S_low == RowGet(frame, idx, "sell_zone_low", U)
        S_high == RowGet(frame, idx, "sell_zone_high", U)
        buy_touch == Ge(H, B_low) /\ Le(L, B_high)
        cond_prev_green ==
            exists_color_in_lookback(frame, idx, LOOKBACK_CANDLES_COLOR, "green", tr)
        bwick == wick_rejection_buy(O, H, L, C)
        bstrong == strong_buy(frame.rows, idx)
        morning == is_morning_star(frame.rows, idx)
        sell_touch == Ge(H, S_low) /\ Le(L, S_high)
        cond_prev_red ==
            exists_color_in_lookback(frame, idx, LOOKBACK_CANDLES_COLOR, "red", tr)
        swick == wick_rejection_sell(O, H, L, C, U)
        sstrong == strong_sell(frame.rows, idx)
        evening == is_evening_star(frame.rows, idx)
    IN  IF /\ tr \in {S_bullish, S_sideways}
           /\ buy_touch /\ cond_prev_green /\ (bwick \/ bstrong \/ morning)
        THEN Out("BUY", "buy_zone_touch+"
                   \o Join(Reasons(morning, "morning_star", bwick, bstrong, "strong_buy")))
        ELSE IF /\ tr \in {S_bearish, S_sideways}
                /\ sell_touch /\ cond_prev_red /\ (swick \/ sstrong \/ evening)
        THEN Out("SELL", "sell_zone_touch+"
                   \o Join(Reasons(evening, "evening_star", swick, sstrong, "strong_sell")))
        ELSE Out(NONE, "no_conditions_met")

\* lines 36-78: the TTR logic
evaluate_ttr(tr, idx, frame) ==
    LET row == Iloc(frame.rows, idx)
        O == row.open
        H == row.high
        L == row.low
        C == row.close
        Z == RowGet(frame, idx, "zlema", NaN)
        U == RowGet(frame, idx, "upper_band", NaN)
        touch_zlema == Le(L, Z) /\ Le(Z, H)
        bwick == wick_rejection_buy(O, H, L, C)
        bstrong == strong_buy(frame.rows, idx)
        morning == is_morning_star(frame.rows, idx)
        swick == wick_rejection_sell(O, H, L, C, U)
        sstrong == strong_sell(frame.rows, idx)
        evening == is_evening_star(frame.rows, idx)
    IN  IF tr \notin {S_bullish, S_bearish}
        THEN Out(NONE, "ttr_skipped_for_sideways")
        ELSE IF tr = S_bullish /\ touch_zlema /\ (bwick \/ bstrong \/ morning)
        THEN Out("BUY", "zlema_touch+"
                   \o Join(Reasons(morning, "morning_star", bwick, bstrong, "strong_buy")))
        ELSE IF tr = S_bearish /\ touch_zlema /\ (swick \/ sstrong \/ evening)
        THEN Out("SELL", "zlema_touch+"
                   \o Join(Reasons(evening, "evening_star", swick, sstrong, "strong_sell")))
        ELSE Out(NONE, "zlema_touched_no_pattern")

\* R < MIN_RANGE_PCT * C with MIN_RANGE_PCT = 0.005
SmallRange(row) == 1000 * (row.high - row.low) < 5 * row.close

evaluate_signal_NoRangeFilter(ph, tr, idx, frame) ==
    IF idx < 0 \/ idx >= Len(frame.rows)
    THEN Out(NONE, "index_out_of_range")
    ELSE IF upper(ph) = S_TTR
    THEN evaluate_ttr(tr, idx, frame)
    ELSE evaluate_zones(tr, idx, frame)

evaluate_signal_PhaseFirst(ph, tr, idx, frame) ==
    IF idx < 0 \/ idx >= Len(frame.rows)
    THEN Out(NONE, "index_out_of_range")
    ELSE IF upper(ph) = S_TTR /\ tr \notin {S_bullish, S_bearish}
    THEN Out(NONE, "ttr_skipped_for_sideways")
    ELSE IF SmallRange(Iloc(frame.rows, idx))
    THEN Out(NONE, "ignored_small_range_0.5%")
    ELSE IF upper(ph) = S_TTR
    THEN evaluate_ttr(tr, idx, frame)
    ELSE evaluate_zones(tr, idx, frame)

evaluate_signal(ph, tr, idx, frame) ==
    IF idx < 0 \/ idx >= Len(frame.rows)
    THEN Out(NONE, "index_out_of_range")
    ELSE IF SmallRange(Iloc(frame.rows, idx))
    THEN Out(NONE, "ignored_small_range_0.5%")
    ELSE IF upper(ph) = S_TTR
    THEN evaluate_ttr(tr, idx, frame)
    ELSE evaluate_zones(tr, idx, frame)

RequiredColumns == {"open", "high", "low", "close", "zlema", "upper_band", "lower_band"}

\* evaluate_candles raises ValueError exactly when this holds
MissingColumn(frame) == ~(RequiredColumns \subseteq frame.columns)

evaluate_candles(frame, ph, tr) ==
    [columns |-> frame.columns \cup {"entry_signal", "reason"},
     rows |-> [i \in DOMAIN frame.rows |->
        LET res == evaluate_signal(ph, tr, i - 1, frame)
        IN  [frame.rows[i] EXCEPT !.entry_signal = res.entry_signal,
                                  !.reason = res.reason]]]

-----------------------------------------------------------------------------
(* The pipeline stages as steps of one run (app.py 255-259,               *)
(* zlema_bbands_trading.py 260-264)                                         *)

Symbols == {"BTCUSDT", "ETHUSDT"}

\* no call of _fetch_impl is under way
NoFetch == [pc |-> "none"]

AppIdle ==
    /\ now = 0
    /\ market = <<>>
    /\ symbol_data = [s \in Symbols |-> EmptyFrame]
    /\ last_signal = [s \in Symbols |-> "absent"]
    /\ active_coins = {}
    /\ settings = [s \in Symbols |-> [phase |-> <<>>, trend |-> <<>>]]
    /\ todo = <<>>
    /\ df_new = EmptyFrame
    /\ fetch = NoFetch
    /\ results = <<>>
    /\ notifier = <<>>

ComputeIndicators ==
    /\ pc = "raw"
    /\ df' = compute_indicators(df)
    /\ pc' = "indicators"
    /\ UNCHANGED <<phase, trend>>
    /\ UNCHANGED appVars

ComputeAdaptivePct ==
    /\ pc = "indicators"
    /\ df' = compute_adaptive_pct(df)
    /\ pc' = "sized"
    /\ UNCHANGED <<phase, trend>>
    /\ UNCHANGED appVars

Compute4hOverlay ==
    /\ pc = "sized"
    /\ df' = compute_4h_overlay(df)
    /\ pc' = "overlaid"
    /\ UNCHANGED <<phase, trend>>
    /\ UNCHANGED appVars

ApplyZones ==
    /\ pc = "overlaid"
    /\ df' = apply_zones(df, phase, trend)
    /\ pc' = "zoned"
    /\ UNCHANGED <<phase, trend>>
    /\ UNCHANGED appVars

EvaluateCandles ==
    /\ pc = "zoned"
    /\ ~MissingColumn(df)
    /\ df' = evaluate_candles(df, phase, trend)
    /\ pc' = "done"
    /\ UNCHANGED <<phase, trend>>
    /\ UNCHANGED appVars

-----------------------------------------------------------------------------
(* SpecEval: apply_zones and evaluate_candles on frames whose indicator    *)
(* columns are given.  A frame is NumFiller equal candles followed by      *)
(* three candles drawn freely; the indicator columns are flat lines.       *)

NumFiller == 10

WickBuy     == Candle(10000, 10350,  9600, 10300)
WickSell    == Candle(10300, 10700,  9950, 10000)
StrongGreen == Candle(10000, 10600, 10000, 10600)
StrongRed   == Candle(10500, 10500,  9900,  9900)
Doji        == Candle(10000, 10100,  9900, 10000)
TinyGreen   == Candle(10000, 10040, 10000, 10040)
BigGreen    == Candle(10000, 10400, 10000, 10400)

TailCandles == {WickBuy, WickSell, StrongGreen, StrongRed, Doji, TinyGreen}
FillerCandles == {BigGreen, Doji}

\* the last three rows: the span of the star patterns
Tails == TailCandles \X TailCandles \X TailCandles

Profile(z, u, lo, pct) ==
    [zlema |-> z, upper_band |-> u, lower_band |-> lo, pct_dynamic |-> pct]

\* touched trend line with bands; touched trend line inside the band warm-up;
\* nothing defined yet; trend line and bands away from the candles
Profiles ==
    { Profile(10000, 10500, 9700, 100),
      Profile(10000, NaN, NaN, MIN_PCT),
      Profile(NaN, NaN, NaN, MIN_PCT),
      Profile(12000, 12500, 11500, MAX_PCT) }

EvalPhases ==
    { S_TTR, <<"t","t","r">>, S_BTR, <<"S","i","d","e","w","a","y","s">> }
EvalTrends == { S_bullish, S_bearish, S_sideways, <<"B","u","l","l","i","s","h">> }

EvalFrame(filler, tail, prof) ==
    [columns |-> RawColumns \cup IndicatorColumns \cup {"pct_dynamic"},
     rows |-> [i \in 1 .. (NumFiller + Len(tail)) |->
        [RawRow(i - 1, IF i <= NumFiller THEN filler ELSE tail[i - NumFiller])
            EXCEPT !.zlema = prof.zlema,
                   !.upper_band = prof.upper_band,
                   !.lower_band = prof.lower_band,
                   !.pct_dynamic = prof.pct_dynamic]]]

InitEval ==
    /\ phase \in EvalPhases
    /\ trend \in EvalTrends
    /\ \E filler \in FillerCandles, tail \in Tails, prof \in Profiles :
          df = EvalFrame(filler, tail, prof)
    /\ pc = "overlaid"
    /\ AppIdle

NextEval == ApplyZones \/ EvaluateCandles

SpecEval == InitEval /\ [][NextEval]_vars

-----------------------------------------------------------------------------
(* SpecPipe: the whole pipeline on raw candle series.  A series is a run   *)
(* of one candle, then up to MaxSwitch rows of a second candle, then a     *)
(* last candle; PipeRows rows in all.                                       *)

PipeRows == 24
MaxSwitch == 8

PFlat   == Candle(10000, 10000, 10000, 10000)
LowFlat == Candle(100, 100, 100, 100)

PipeBase == {PFlat, Doji, BigGreen}
PipeMove == {PFlat, LowFlat, StrongGreen, StrongRed, WickSell}
PipeLast == {PFlat, LowFlat, WickBuy, WickSell}

PipePhases ==
    { S_TTR, <<"b","t","r">>, <<"S","i","d","e","w","a","y","s">>,
      <<" ","B","T","R"," ">>, <<"X","Y","Z">> }
PipeTrends == { S_bullish, S_bearish, S_sideways }

PipeFrame(a, k, b, t) ==
    [columns |-> RawColumns,
     rows |-> [i \in 1 .. PipeRows |->
        RawRow(i - 1, IF i = PipeRows THEN t
                      ELSE IF i >= PipeRows - k THEN b
                      ELSE a)]]

InitPipe ==
    /\ phase \in PipePhases
    /\ trend \in PipeTrends
    /\ \E a \in PipeBase, k \in 0 .. MaxSwitch, b \in PipeMove, t \in PipeLast :
          df = PipeFrame(a, k, b, t)
    /\ pc = "raw"
    /\ AppIdle

NextPipe ==
    \/ ComputeIndicators
    \/ ComputeAdaptivePct
    \/ Compute4hOverlay
    \/ ApplyZones
    \/ EvaluateCandles

SpecPipe == InitPipe /\ [][NextPipe]_vars

\* Ratio never meets a zero trend line in the frames of SpecPipe
ZlemaNeverZero == \A i \in DOMAIN df.rows : df.rows[i].zlema # 0

-----------------------------------------------------------------------------
(* SpecOverlay: the first three stages on series of every length up to     *)
(* OverlayRows, long enough for the 4H series to leave its own warm-up.    *)
(* A series is one candle repeated, with another candle on its last        *)
(* OverlayTail rows.                                                       *)

OverlayRows == 92
OverlayTail == 5

OverlayMove == {StrongGreen, Doji}

OverlayFrame(n, a, b) ==
    [columns |-> RawColumns,
     rows |-> [i \in 1 .. n |-> RawRow(i - 1, IF i > n - OverlayTail THEN b ELSE a)]]

InitOverlay ==
    /\ phase = S_BTR
    /\ trend = S_bullish
    /\ \E n \in 1 .. OverlayRows, a \in PipeBase, b \in OverlayMove :
          df = OverlayFrame(n, a, b)
    /\ pc = "raw"
    /\ AppIdle

NextOverlay ==
    \/ ComputeIndicators
    \/ ComputeAdaptivePct
    \/ Compute4hOverlay

SpecOverlay == InitOverlay /\ [][NextOverlay]_vars

-----------------------------------------------------------------------------
(* SpecScenario: the whole pipeline on a warm-up of equal candles, from    *)
(* none to ScenarioRows of them, followed by one candle.                   *)

ScenarioRows == 24

ScenarioLast == {WickBuy, WickSell}

ScenarioFrame(n, a, t) ==
    [columns |-> RawColumns,
     rows |-> [i \in 1 .. (n + 1) |-> RawRow(i - 1, IF i = n + 1 THEN t ELSE a)]]

InitScenario ==
    /\ phase \in {S_BTR, S_TTR}
    /\ trend \in PipeTrends
    /\ \E n \in 0 .. ScenarioRows, a \in {PFlat, Doji}, t \in ScenarioLast :
          df = ScenarioFrame(n, a, t)
    /\ pc = "raw"
    /\ AppIdle

SpecScenario == InitScenario /\ [][NextPipe]_vars

-----------------------------------------------------------------------------
(* app.py: the incremental merge of get_symbol_data and the analysis loop  *)
(* of analyze_active_coins.  Time is counted in hours, the interval of the *)
(* candles; the exchange holds one candle per hour up to now.              *)

\* timedelta(days=FETCH_DAYS) in hours (720 in the program)
RetentionHours == 12
MaxTicks == 2

SymbolOrder == <<"BTCUSDT", "ETHUSDT">>

\* sorted(list(active_coins))
SortedSymbols(active) ==
    SelectSeq(SymbolOrder, LAMBDA x : x \in active)

\* the exchange's candles with open_time >= from, oldest first
MarketFrom(mkt, from) ==
    [columns |-> RawColumns,
     rows |-> [i \in 1 .. (Len(mkt) - Max2(from, 0)) |->
                  RawRow(Max2(from, 0) + i - 1, mkt[Max2(from, 0) + i])]]

\* df["open_time"].max()
MaxOpenTime(rows) ==
    CHOOSE t \in {rows[i].open_time : i \in DOMAIN rows} :
        \A i \in DOMAIN rows : rows[i].open_time <= t

\* DataFrame.drop_duplicates(subset=["open_time"]): the first row of each
\* open_time is kept
DropDuplicates(rows) ==
    LET keep(i) == \A j \in 1 .. (i - 1) : rows[j].open_time # rows[i].open_time
        RECURSIVE Build(_)
        Build(i) == IF i > Len(rows) THEN <<>>
                    ELSE (IF keep(i) THEN <<rows[i]>> ELSE <<>>) \o Build(i + 1)
    IN  Build(1)

RECURSIVE SortValues(_)
\* DataFrame.sort_values("open_time")
SortValues(rows) ==
    IF rows = <<>> THEN <<>>
    ELSE LET m == CHOOSE i \in DOMAIN rows :
                    /\ \A j \in DOMAIN rows : rows[i].open_time <= rows[j].open_time
                    /\ \A j \in 1 .. (i - 1) : rows[j].open_time # rows[i].open_time
         IN  <<rows[m]>> \o SortValues(SubSeq(rows, 1, m - 1) \o SubSeq(rows, m + 1, Len(rows)))

\* df[df["open_time"] >= cutoff]
Trimmed(rows, cutoff) == SelectSeq(rows, LAMBDA r : r.open_time >= cutoff)

\* lines 172-181: concat, drop_duplicates, sort_values, the retention filter
MergeUntrimmed(df_old, batch, t) ==
    [columns |-> RawColumns,
     rows |-> SortValues(DropDuplicates(df_old.rows \o batch.rows))]

Merge(df_old, batch, t) ==
    [columns |-> RawColumns,
     rows |-> Trimmed(SortValues(DropDuplicates(df_old.rows \o batch.rows)),
                      t - RetentionHours)]

\* get_symbol_data: the frame it returns and the cache entry it leaves.
\* fetched is what fetch_klines returned to the call.  data_cache (lines
\* 133-146) always holds what the initial branch stored, so its own
\* incremental branch is never taken and it is not carried as state.
get_symbol_data(cached, fetched, t) ==
    IF cached.rows = <<>>
    THEN IF fetched.rows = <<>>
         THEN [df |-> EmptyFrame, cache |-> cached, updated |-> FALSE]
         ELSE [df |-> fetched, cache |-> fetched, updated |-> TRUE]
    ELSE IF fetched.rows # <<>>
         THEN [df |-> Merge(cached, fetched, t),
               cache |-> Merge(cached, fetched, t), updated |-> TRUE]
         ELSE [df |-> cached, cache |-> cached, updated |-> FALSE]

\* what fetch_klines can return to a call of get_symbol_data: nothing, or
\* the exchange's candles from the requested start on, or (incremental call)
\* a batch that starts OverlapHours before it and so overlaps the cache
OverlapHours == 2

FetchResults(cached, mkt, t) ==
    IF cached.rows = <<>>
    THEN {EmptyFrame, MarketFrom(mkt, t - RetentionHours)}
    ELSE LET start_time == MaxOpenTime(cached.rows) + 1
         IN  {EmptyFrame, MarketFrom(mkt, start_time),
              MarketFrom(mkt, start_time - OverlapHours)}

\* lines 255-259
Pipeline(frame, ph, tr) ==
    evaluate_candles(
        apply_zones(
            compute_4h_overlay(compute_adaptive_pct(compute_indicators(frame))),
            ph, tr),
        ph, tr)

Alert(symbol, signal, ph, tr, latest) ==
    [symbol |-> symbol, signal |-> signal, phase |-> ph, trend |-> tr,
     price |-> latest.close, time |-> latest.open_time]

\* send_telegram_alert, lines 56-79: the message is posted and the call
\* returns True (status 200) or False (credentials missing, another status,
\* an exception).  The result is what the notifier has of the hand-over:
\* the message and whether it was delivered.
send_telegram_alert(message, delivered) == [delivered |-> delivered] @@ message

\* line 286 made conditional on the delivery
RecordSignal_OnlyDelivered(memo, symbol, signal, delivered) ==
    IF delivered THEN [memo EXCEPT ![symbol] = signal] ELSE memo

\* line 286: the memo takes the signal, whatever send_telegram_alert returned
RecordSignal(memo, symbol, signal, delivered) ==
    [memo EXCEPT ![symbol] = signal]

\* lines 277-278 without the comparison with the memo
ShouldAlert_NoMemo(memo, symbol, signal) ==
    signal \in {"BUY", "SELL"}

\* lines 277-278
ShouldAlert(memo, symbol, signal) ==
    signal \in {"BUY", "SELL"} /\ signal # memo[symbol]

(* the sidebar *)

\* lines 197-200: the two select boxes of the selected coin.  Only an
\* analysis reads the settings, so the changes made between two analyses
\* are taken as one step that leaves both boxes at their final values.
SidebarChoices ==
    { [phase |-> S_TTR, trend |-> <<"B","u","l","l","i","s","h">>],
      [phase |-> S_TTR, trend |-> <<"B","e","a","r","i","s","h">>] }

Idle == pc = "idle"

Configure(s, choice) ==
    /\ Idle
    /\ settings[s] # choice
    /\ settings' = [settings EXCEPT ![s] = choice]
    /\ UNCHANGED <<fetch, df, phase, trend, pc, now, market, symbol_data, last_signal,
                   active_coins, todo, df_new, results, notifier>>

ToggleMonitor(s) ==
    /\ Idle
    /\ active_coins' = IF s \in active_coins THEN active_coins \ {s}
                                             ELSE active_coins \cup {s}
    /\ UNCHANGED <<fetch, df, phase, trend, pc, now, market, symbol_data, last_signal,
                   settings, todo, df_new, results, notifier>>

\* an hour passes and the exchange closes one more candle
TickCandles == {WickBuy, StrongRed}

Tick(c) ==
    /\ Idle
    /\ now < RetentionHours + MaxTicks
    /\ now' = now + 1
    /\ market' = Append(market, c)
    /\ UNCHANGED <<fetch, df, phase, trend, pc, symbol_data, last_signal, active_coins,
                   settings, todo, df_new, results, notifier>>

\* analyze_active_coins, lines 229-237: the sorted list of active coins;
\* without active coins the analysis returns an empty summary at once
StartAnalysis ==
    /\ Idle
    /\ IF active_coins = {}
       THEN /\ results' = <<>>
            /\ UNCHANGED <<pc, todo>>
       ELSE /\ todo' = SortedSymbols(active_coins)
            /\ results' = <<>>
            /\ pc' = "analyzing"
    /\ UNCHANGED <<fetch, df, phase, trend, now, market, symbol_data, last_signal,
                   active_coins, settings, df_new, notifier>>

\* analyze_active_coins, lines 242-295: one pass of the loop
AnalyzeCoin ==
    /\ pc = "analyzing"
    /\ todo # <<>>
    /\ LET symbol == Head(todo)
           ph == settings[symbol].phase
           tr == validate_trend(settings[symbol].trend)
       IN
       \E fetched \in FetchResults(symbol_data[symbol], market, now) :
       \E got \in {get_symbol_data(symbol_data[symbol], fetched, now)} :
          /\ df_new' = fetched
          /\ symbol_data' = [symbol_data EXCEPT ![symbol] = got.cache]
          /\ todo' = Tail(todo)
          /\ IF got.df.rows = <<>>
             THEN UNCHANGED <<last_signal, results, notifier>>
             ELSE \E out \in {Pipeline(got.df, ph, tr)} :
                  LET latest == out.rows[Len(out.rows)]
                      signal == latest.entry_signal
                  IN  /\ IF ShouldAlert(last_signal, symbol, signal)
                         THEN \E delivered \in BOOLEAN :
                              /\ notifier' = Append(notifier,
                                    send_telegram_alert(
                                       Alert(symbol, signal, ph, tr, latest), delivered))
                              /\ last_signal' =
                                    RecordSignal(last_signal, symbol, signal, delivered)
                         ELSE UNCHANGED <<last_signal, notifier>>
                      /\ results' = Append(results,
                                       [symbol |-> symbol, signal |-> signal])
    /\ UNCHANGED <<fetch, df, phase, trend, pc, now, market, active_coins, settings>>

\* analyze_active_coins, lines 297-300: the loop is over, the results become
\* the summary; the locals of the run and the messages it sent are gone
FinishAnalysis ==
    /\ pc = "analyzing"
    /\ todo = <<>>
    /\ pc' = "idle"
    /\ df_new' = EmptyFrame
    /\ notifier' = <<>>
    /\ UNCHANGED <<fetch, df, phase, trend, now, market, symbol_data, last_signal,
                   active_coins, settings, todo, results>>

InitApp ==
    /\ df = EmptyFrame
    /\ phase = <<>>
    /\ trend = <<>>
    /\ pc = "idle"
    /\ now = RetentionHours
    /\ market = [t \in 1 .. (RetentionHours + 1) |-> PFlat]
    /\ symbol_data = [s \in Symbols |-> EmptyFrame]
    /\ last_signal = [s \in Symbols |-> "absent"]
    /\ active_coins = {}
    /\ settings = [s \in Symbols |->
                     [phase |-> <<"S","i","d","e","w","a","y","s">>,
                      trend |-> <<"S","i","d","e","w","a","y","s">>]]
    /\ todo = <<>>
    /\ df_new = EmptyFrame
    /\ fetch = NoFetch
    /\ results = <<>>
    /\ notifier = <<>>

NextApp ==
    \/ \E s \in Symbols, choice \in SidebarChoices : Configure(s, choice)
    \/ \E s \in Symbols : ToggleMonitor(s)
    \/ \E c \in TickCandles : Tick(c)
    \/ StartAnalysis
    \/ AnalyzeCoin
    \/ FinishAnalysis

SpecApp == InitApp /\ [][NextApp]_vars

-----------------------------------------------------------------------------
(* binance_integration.py: _fetch_impl with _safe_request and              *)
(* _fallback_csv, as steps of one call.  A request attempt is one step     *)
(* whose input is what the network gave; the waits of line 75 are part of  *)
(* the attempt.                                                            *)

\* line 39: the number of entries of BINANCE_ENDPOINTS
NumEndpoints == 3

\* line 53: the default of the parameter
retries == 3

\* what one requests.get of _safe_request can come to:
\*   requests.get raises (connection, timeout), or raise_for_status raises
RaisingResponses == {"exception", "http_error"}
\*   status 451/403, a body that is no JSON, JSON that is no list of rows
\*   of at least 6 items
SkippedResponses == {"blocked", "not_json", "bad_structure"}
\*   a list that passes line 70: empty, rows that _parse_klines cannot turn
\*   into a frame, or klines
ListResponses == {"empty_list", "unparsable", "klines"}

Responses == RaisingResponses \cup SkippedResponses \cup ListResponses

\* what pd.read_csv of the fallback can come to
CsvOutcomes == {"rows", "no_rows", "error"}

\* lines 144-155: the call has built its parameters and enters the loop
StartFetch(symbol, incremental) ==
    [pc |-> "request", symbol |-> symbol, incremental |-> incremental,
     endpoint |-> 1, attempt |-> 1, response |-> "none", data |-> "none",
     requests |-> [e \in 1 .. NumEndpoints |-> 0], failed |-> {},
     csv_loads |-> 0, result |-> "none"]

\* _safe_request, lines 55-77: one pass of the loop over the attempts
safe_request_step(f, resp) ==
    LET counted == [f EXCEPT !.requests[f.endpoint] = @ + 1, !.response = resp]
    IN  IF resp \in ListResponses
        THEN [counted EXCEPT !.data = resp, !.pc = "validate"]
        ELSE IF f.attempt < retries
        THEN [counted EXCEPT !.attempt = @ + 1]
        ELSE [counted EXCEPT !.data = "empty_list", !.pc = "validate"]

\* lines 161-174 giving up the endpoints at the first one that fails
fetch_impl_step_FallbackEarly(f) ==
    IF f.data = "klines"
    THEN [f EXCEPT !.result = "klines", !.pc = "returned"]
    ELSE [f EXCEPT !.failed = @ \cup {f.endpoint}, !.data = "none",
                   !.response = "none", !.pc = "fallback"]

\* _fetch_impl, lines 158-174: what the loop does with the data of one
\* endpoint: return the parsed klines, or go on to the next endpoint, or
\* leave the loop for the fallback
fetch_impl_step(f) ==
    IF f.data = "klines"
    THEN [f EXCEPT !.result = "klines", !.pc = "returned"]
    ELSE LET g == [f EXCEPT !.failed = @ \cup {f.endpoint}, !.data = "none",
                            !.response = "none"]
         IN  IF f.endpoint < NumEndpoints
             THEN [g EXCEPT !.endpoint = @ + 1, !.attempt = 1, !.pc = "request"]
             ELSE [g EXCEPT !.pc = "fallback"]

\* lines 176-184 with _fallback_csv (lines 112-138): the CSV rows, or the
\* empty frame when the CSV is empty or could not be loaded
fallback_step(f, csv) ==
    [f EXCEPT !.csv_loads = @ + 1,
              !.result = IF csv = "rows" THEN "csv" ELSE "empty",
              !.pc = "returned"]

fetchFrame == <<df, phase, trend, pc, now, market, symbol_data, last_signal,
                active_coins, settings, todo, df_new, results, notifier>>

FetchCall(symbol, incremental) ==
    /\ fetch = NoFetch
    /\ fetch' = StartFetch(symbol, incremental)
    /\ UNCHANGED fetchFrame

SafeRequest(resp) ==
    /\ fetch.pc = "request"
    /\ fetch' = safe_request_step(fetch, resp)
    /\ UNCHANGED fetchFrame

HandleData ==
    /\ fetch.pc = "validate"
    /\ fetch' = fetch_impl_step(fetch)
    /\ UNCHANGED fetchFrame

FallbackCsv(csv) ==
    /\ fetch.pc = "fallback"
    /\ fetch' = fallback_step(fetch, csv)
    /\ UNCHANGED fetchFrame

InitFetch ==
    /\ df = EmptyFrame
    /\ phase = <<>>
    /\ trend = <<>>
    /\ pc = "idle"
    /\ AppIdle

NextFetch ==
    \/ \E s \in Symbols, incremental \in BOOLEAN : FetchCall(s, incremental)
    \/ \E resp \in Responses : SafeRequest(resp)
    \/ HandleData
    \/ \E csv \in CsvOutcomes : FallbackCsv(csv)

\* the call is sequential code and every network call in it returns or
\* raises, so a step that is possible is taken
SpecFetch == InitFetch /\ [][NextFetch]_vars /\ WF_vars(NextFetch)

-----------------------------------------------------------------------------
(* Vocabulary of the claims about evaluate_signal *)

Done == pc = "done"

RowIdx == 0 .. (Len(df.rows) - 1)

PassesRangeFilter(r) == ~(1000 * (r.high - r.low) < 5 * r.close)

TouchesTrendLine(r) == Le(r.low, r.zlema) /\ Le(r.zlema, r.high)

BuyPattern(idx) ==
    LET r == Iloc(df.rows, idx)
    IN  \/ wick_rejection_buy(r.open, r.high, r.low, r.close)
        \/ strong_buy(df.rows, idx)
        \/ is_morning_star(df.rows, idx)

\* wick-rejection-sell as a predicate of the candle alone, the mirror image
\* of wick_rejection_buy
WickRejectionSell(O, H, L, C) ==
    LET R == H - L
        body == Abs(O - C)
        upper_wick == H - Max2(O, C)
        lower_wick == Min2(O, C) - L
    IN  /\ ~(R <= 0)
        /\ ~(1000 * R < 5 * C)
        /\ 100 * upper_wick >= 33 * R
        /\ 10 * body >= 4 * R
        /\ 4 * lower_wick <= R
        /\ C < O

SellPattern(idx) ==
    LET r == Iloc(df.rows, idx)
    IN  \/ WickRejectionSell(r.open, r.high, r.low, r.close)
        \/ strong_sell(df.rows, idx)
        \/ is_evening_star(df.rows, idx)

\* two closed intervals of prices have a common point
Intersects(lo1, hi1, lo2, hi2) ==
    /\ IsNum(lo2) /\ IsNum(hi2)
    /\ lo1 <= hi1 /\ lo2 <= hi2
    /\ Max2(lo1, lo2) <= Min2(hi1, hi2)

\* the colour of row j under the colour rule of get_candle_color
Classified(j, tr) ==
    LET r == Iloc(df.rows, j)
    IN  IF r.close > r.open THEN "green"
        ELSE IF r.close < r.open THEN "red"
        ELSE IF tr = S_bullish THEN "green"
        ELSE IF tr = S_bearish THEN "red"
        ELSE IF tr = S_sideways /\ Le(r.buy_zone_low, r.close)
                /\ Le(r.close, r.buy_zone_high) THEN "green"
        ELSE IF tr = S_sideways /\ Le(r.sell_zone_low, r.close)
                /\ Le(r.close, r.sell_zone_high) THEN "red"
        ELSE "neutral"

PrevClassified(idx, color, tr) ==
    \E k \in 1 .. 4 : idx - k >= 0 /\ Classified(idx - k, tr) = color

-----------------------------------------------------------------------------
(* C1: a row whose range is below 0.5% of its close is NONE with reason     *)
(* "ignored_small_range_0.5%", whatever the phase, the trend, the trend     *)
(* line, the zones and the patterns.                                        *)
C1_RangeFilterFirst ==
    Done =>
        \A i \in RowIdx :
            LET r == Iloc(df.rows, i)
            IN  (1000 * (r.high - r.low) < 5 * r.close) =>
                    /\ r.entry_signal = NONE
                    /\ r.reason = "ignored_small_range_0.5%"

\* a small-range row that touches the trend line as a strong green candle in
\* a bullish TTR run, and a small-range row of a sideways-phase run
C1_Witness ==
    /\ Done
    /\ phase = S_TTR /\ trend = S_bullish
    /\ \E i \in RowIdx :
          /\ ~PassesRangeFilter(Iloc(df.rows, i))
          /\ TouchesTrendLine(Iloc(df.rows, i))
          /\ strong_buy(df.rows, i)
          /\ Iloc(df.rows, i).reason = "ignored_small_range_0.5%"

C3_TtrSignals ==
    (Done /\ upper(phase) = S_TTR) =>
        \A i \in RowIdx :
            LET r == Iloc(df.rows, i)
            IN  PassesRangeFilter(r) =>
                  /\ trend = S_bullish =>
                        /\ r.entry_signal = "BUY" <=> (TouchesTrendLine(r) /\ BuyPattern(i))
                        /\ r.entry_signal # "SELL"
                  /\ trend = S_bearish =>
                        /\ r.entry_signal = "SELL" <=> (TouchesTrendLine(r) /\ SellPattern(i))
                        /\ r.entry_signal # "BUY"

(* C4 as stated: in phase TTR with trend bullish or bearish, the reason     *)
(* "zlema_touched_no_pattern" goes only to rows that touch the trend line   *)
(* while no pattern holds, and a row that passes the range filter without   *)
(* touching the trend line has reason "no_conditions_met".                  *)
C4_TouchedReasonOnlyOnTouch ==
    (Done /\ upper(phase) = S_TTR /\ trend \in {S_bullish, S_bearish}) =>
        \A i \in RowIdx :
            LET r == Iloc(df.rows, i)
                pattern == IF trend = S_bullish THEN BuyPattern(i) ELSE SellPattern(i)
            IN  /\ r.reason = "zlema_touched_no_pattern" =>
                      (TouchesTrendLine(r) /\ ~pattern)
                /\ (PassesRangeFilter(r) /\ ~TouchesTrendLine(r)) =>
                      r.reason = "no_conditions_met"

(* C5: in phase BTR or SIDEWAYS a row that passes the range filter is BUY   *)
(* exactly when the trend is bullish or sideways, [low, high] meets the buy *)
(* zone, one of the 4 rows before it is green and a buy pattern holds;      *)
(* failing that it is SELL exactly when the trend is bearish or sideways,   *)
(* [low, high] meets the sell zone, one of the 4 rows before it is red and  *)
(* a sell pattern holds; failing both it is NONE, "no_conditions_met".      *)
C5_ZoneSignals ==
    (Done /\ upper(phase) \in {S_BTR, S_SIDEWAYS}) =>
        \A i \in RowIdx :
            LET r == Iloc(df.rows, i)
                buy == /\ trend \in {S_bullish, S_sideways}
                       /\ Intersects(r.low, r.high, r.buy_zone_low, r.buy_zone_high)
                       /\ PrevClassified(i, "green", trend)
                       /\ BuyPattern(i)
                sell == /\ trend \in {S_bearish, S_sideways}
                        /\ Intersects(r.low, r.high, r.sell_zone_low, r.sell_zone_high)
                        /\ PrevClassified(i, "red", trend)
                        /\ SellPattern(i)
            IN  PassesRangeFilter(r) =>
                  /\ r.entry_signal = "BUY" <=> buy
                  /\ r.entry_signal = "SELL" <=> (~buy /\ sell)
                  /\ (~buy /\ ~sell) =>
                        (r.entry_signal = NONE /\ r.reason = "no_conditions_met")

\* a sideways run with a BUY row and a SELL row
C5_Witness ==
    /\ Done /\ upper(phase) \in {S_BTR, S_SIDEWAYS} /\ trend = S_sideways
    /\ \E i, j \in RowIdx :
          /\ Iloc(df.rows, i).entry_signal = "BUY"
          /\ Iloc(df.rows, j).entry_signal = "SELL"

-----------------------------------------------------------------------------
(* Vocabulary of the claims about the dashboard driver *)

\* this step is a pass of the analysis loop that evaluated symbol s
RunOf(s) ==
    /\ pc = "analyzing" /\ todo # <<>> /\ Head(todo) = s
    /\ todo' = Tail(todo)
    /\ Len(results') = Len(results) + 1

\* the entry_signal of the latest row in that pass
RunSignal == results'[Len(results')].signal

\* this step hands an alert for symbol s to the notifier
Handed(s) ==
    /\ Len(notifier') = Len(notifier) + 1
    /\ notifier'[Len(notifier')].symbol = s

OpenTimes(rows) == {rows[i].open_time : i \in DOMAIN rows}

NoDuplicateOpenTime(rows) ==
    \A i, j \in DOMAIN rows : rows[i].open_time = rows[j].open_time => i = j

SortedByOpenTime(rows) ==
    \A i, j \in DOMAIN rows : i < j => rows[i].open_time <= rows[j].open_time

\* this step is a call of get_symbol_data for s that merged a non-empty
\* batch into a non-empty cached series
MergeOf(s) ==
    /\ pc = "analyzing" /\ todo # <<>> /\ Head(todo) = s
    /\ todo' = Tail(todo)
    /\ symbol_data[s].rows # <<>>
    /\ df_new'.rows # <<>>

\* the batch of that call shares an open_time with the cached series
Overlapping(s) ==
    OpenTimes(symbol_data[s].rows) \cap OpenTimes(df_new'.rows) # {}

(* C6: for every symbol, a pass of the analysis hands an alert to the      *)
(* notifier exactly when the latest row's entry_signal is BUY or SELL and  *)
(* differs from the symbol's entry of the last-signal memo, and the memo   *)
(* then records that signal; a pass whose signal is NONE or equals the     *)
(* recorded value, and every other step, hands over no alert.              *)
C6_AlertOnChange ==
    [][ \A s \in Symbols :
          /\ RunOf(s) =>
               /\ Handed(s) <=> ( /\ RunSignal \in {"BUY", "SELL"}
                                  /\ RunSignal # last_signal[s] )
               /\ Handed(s) =>
                    /\ notifier'[Len(notifier')].signal = RunSignal
                    /\ last_signal'[s] = RunSignal
          /\ ~RunOf(s) => ~Handed(s)
      ]_vars

\* an analysis in which both symbols came out SELL and only one of them
\* was alerted: the other one's memo already recorded SELL
C6_Witness ==
    /\ pc = "analyzing" /\ todo = <<>>
    /\ Len(results) = 2
    /\ results[1].signal = "SELL" /\ results[2].signal = "SELL"
    /\ Len(notifier) = 1 /\ notifier[1].signal = "SELL"
    /\ \A s \in Symbols : last_signal[s] = "SELL"

-----------------------------------------------------------------------------
(* Vocabulary of the claims about the zones *)

Zoned == pc \in {"zoned", "done"}

ZonesDefined(r) ==
    /\ IsNum(r.buy_zone_low) /\ IsNum(r.buy_zone_high)
    /\ IsNum(r.sell_zone_low) /\ IsNum(r.sell_zone_high)

AnyZoneDefined(r) ==
    \/ IsNum(r.buy_zone_low) \/ IsNum(r.buy_zone_high)
    \/ IsNum(r.sell_zone_low) \/ IsNum(r.sell_zone_high)

(* C8 as stated: where the zone fields are defined, buy_zone_high is at    *)
(* most the trend line and sell_zone_low is at least the trend line.        *)
C8_AsStated ==
    Zoned =>
        \A i \in DOMAIN df.rows :
            LET r == df.rows[i]
            IN  ZonesDefined(r) =>
                    (r.buy_zone_high <= r.zlema /\ r.sell_zone_low >= r.zlema)

(* C8 amended: where the zone fields are defined and the band of a zone is  *)
(* not negative, the zone brackets its band and its outer edge stays on     *)
(* its side of the trend line: buy_zone_low <= lower_band <= buy_zone_high  *)
(* with buy_zone_low <= trend line, and sell_zone_low <= upper_band <=      *)
(* sell_zone_high with sell_zone_high >= trend line.                        *)
C8_ZonesBracketBands ==
    Zoned =>
        \A i \in DOMAIN df.rows :
            LET r == df.rows[i]
            IN  ZonesDefined(r) =>
                  /\ r.lower_band >= 0 =>
                        /\ r.buy_zone_low <= r.lower_band
                        /\ r.lower_band <= r.buy_zone_high
                        /\ r.buy_zone_low <= r.zlema
                  /\ r.upper_band >= 0 =>
                        /\ r.sell_zone_low <= r.upper_band
                        /\ r.upper_band <= r.sell_zone_high
                        /\ r.sell_zone_high >= r.zlema

\* a row whose buy zone reaches above the trend line and whose sell zone
\* reaches below it, the outer edges on their own sides
C8_Witness ==
    /\ Zoned
    /\ \E i \in DOMAIN df.rows :
          LET r == df.rows[i]
          IN  /\ ZonesDefined(r)
              /\ r.lower_band >= 0
              /\ r.buy_zone_high > r.zlema /\ r.sell_zone_low < r.zlema
              /\ r.buy_zone_low < r.zlema /\ r.sell_zone_high > r.zlema
              /\ r.upper_band > r.lower_band

(* C9: where the zone fields are defined, buy_zone_low <= buy_zone_high and *)
(* sell_zone_low <= sell_zone_high, negative bands included.                *)
C9_ZonesOrdered ==
    Zoned =>
        \A i \in DOMAIN df.rows :
            LET r == df.rows[i]
            IN  ZonesDefined(r) =>
                    (r.buy_zone_low <= r.buy_zone_high
                        /\ r.sell_zone_low <= r.sell_zone_high)

(* C10: a zone field is defined only when the phase, stripped and in upper  *)
(* case, is BTR or SIDEWAYS; for TTR and for any other phase string all     *)
(* four zone fields of every row are undefined, whatever the trend.         *)
C10_ZonesOnlyForBtrSideways ==
    Zoned =>
        (upper(strip(phase)) \notin {S_BTR, S_SIDEWAYS} =>
            \A i \in DOMAIN df.rows : ~AnyZoneDefined(df.rows[i]))

\* an unrecognized phase on a frame whose bands are defined
C10_Witness ==
    /\ Zoned
    /\ upper(strip(phase)) \notin {S_TTR, S_BTR, S_SIDEWAYS}
    /\ \E i \in DOMAIN df.rows : IsNum(df.rows[i].lower_band)
    /\ \A i \in DOMAIN df.rows : ~AnyZoneDefined(df.rows[i])

\* the same for TTR, and zones present for a phase written in another case
C10_WitnessTtr ==
    /\ Zoned
    /\ upper(strip(phase)) = S_TTR
    /\ \E i \in DOMAIN df.rows : IsNum(df.rows[i].lower_band)

C10_WitnessZones ==
    /\ Zoned
    /\ phase \notin {S_BTR, S_SIDEWAYS}
    /\ \E i \in DOMAIN df.rows : ZonesDefined(df.rows[i])

-----------------------------------------------------------------------------
(* Vocabulary of the claims about the indicators *)

Sized == pc \in {"sized", "overlaid", "zoned", "done"}

\* raw_pct of a row: (upper_band - lower_band) / zlema
RawPct(r) == Ratio(Sub(r.upper_band, r.lower_band), r.zlema)

(* C11 as stated: after compute_adaptive_pct, on every row where raw_pct   *)
(* is defined, pct_dynamic <= 0.6 * raw_pct.                               *)
C11_AsStated ==
    Sized => \A i \in DOMAIN df.rows :
                LET r == df.rows[i]
                IN  IsNum(RawPct(r)) => r.pct_dynamic <= (6 * RawPct(r)) \div 10

(* C11 amended: after compute_adaptive_pct, on every row where raw_pct is  *)
(* defined, pct_dynamic is at most the larger of 0.6 * raw_pct and the     *)
(* floor MIN_PCT.                                                          *)
C11_CappedAboveFloor ==
    Sized => \A i \in DOMAIN df.rows :
                LET r == df.rows[i]
                IN  IsNum(RawPct(r)) =>
                       r.pct_dynamic <= Max2((6 * RawPct(r)) \div 10, MIN_PCT)

\* a row whose pct_dynamic is held by the cap, above the floor
C11_Witness ==
    /\ Sized
    /\ \E i \in DOMAIN df.rows :
          LET r == df.rows[i]
          IN  /\ IsNum(RawPct(r))
              /\ r.pct_dynamic = (6 * RawPct(r)) \div 10
              /\ r.pct_dynamic > MIN_PCT
              /\ r.pct_dynamic < MAX_PCT

Indicated == pc \in {"indicators", "sized", "overlaid", "zoned", "done"}

AllDefined(r) == IsNum(r.zlema) /\ IsNum(r.upper_band) /\ IsNum(r.lower_band)

NoneDefined(r) == ~IsNum(r.zlema) /\ ~IsNum(r.upper_band) /\ ~IsNum(r.lower_band)

Ordered(r) == r.lower_band <= r.zlema /\ r.zlema <= r.upper_band

(* C13 as stated: after compute_indicators with span 16, trend_line,       *)
(* upper_band and lower_band are all undefined on row indices 0..15 and,   *)
(* for every row index i >= 16, all defined with                            *)
(* lower_band <= trend_line <= upper_band.                                  *)
C13_AsStated ==
    Indicated => \A i \in RowIdx :
                    LET r == Iloc(df.rows, i)
                    IN  /\ i < SPAN => NoneDefined(r)
                        /\ i >= SPAN => AllDefined(r) /\ Ordered(r)

(* C13 amended: after compute_indicators with span 16, trend_line is       *)
(* undefined on row indices 0..6 (the lag floor((16-1)/2) = 7) and defined *)
(* from index 7 on; upper_band and lower_band are undefined on indices     *)
(* 0..21 and defined from index 22 = 7 + 16 - 1 on; and on every row where *)
(* all three are defined lower_band <= trend_line <= upper_band.           *)
C13_WarmUpByLagAndWindow ==
    Indicated => \A i \in RowIdx :
                    LET r == Iloc(df.rows, i)
                    IN  /\ IsNum(r.zlema) <=> i >= Lag(SPAN)
                        /\ IsNum(r.upper_band) <=> i >= Lag(SPAN) + SPAN - 1
                        /\ IsNum(r.lower_band) <=> i >= Lag(SPAN) + SPAN - 1
                        /\ AllDefined(r) => Ordered(r)

\* the indicators of a series long enough to leave both warm-up windows
C13_Witness ==
    /\ pc = "indicators"
    /\ Len(df.rows) > Lag(SPAN) + SPAN
    /\ ~IsNum(Iloc(df.rows, Lag(SPAN) - 1).zlema)
    /\ IsNum(Iloc(df.rows, Lag(SPAN)).zlema)
    /\ ~IsNum(Iloc(df.rows, Lag(SPAN) + SPAN - 2).upper_band)
    /\ IsNum(Iloc(df.rows, Lag(SPAN) + SPAN - 1).upper_band)

(* C14: after compute_indicators, on every row where trend_line,           *)
(* upper_band and lower_band are all defined,                               *)
(* upper_band >= trend_line >= lower_band.                                  *)
C14_BandsOrdered ==
    Indicated => \A i \in RowIdx :
                    LET r == Iloc(df.rows, i)
                    IN  AllDefined(r) => (r.upper_band >= r.zlema /\ r.zlema >= r.lower_band)

\* a row with a band of positive width around the trend line
C14_Witness ==
    /\ Indicated
    /\ \E i \in RowIdx :
          LET r == Iloc(df.rows, i)
          IN  AllDefined(r) /\ r.upper_band > r.zlema /\ r.zlema > r.lower_band

Overlaid == pc \in {"overlaid", "zoned", "done"}

\* the bucket of row index i: floor(i / 4)
Bucket(i) == i \div GROUP_SIZE

(* C15 as stated: a trailing bucket of fewer than 4 rows is still          *)
(* aggregated, and no overlay value (zlema_4h, upper_band_4h,              *)
(* lower_band_4h) is defined for a row whose bucket index is below 15.     *)
C15_AsStated ==
    Overlaid => \A i \in RowIdx :
                   LET r == Iloc(df.rows, i)
                   IN  ( \/ IsNum(r.zlema_4h) \/ IsNum(r.upper_band_4h)
                         \/ IsNum(r.lower_band_4h) ) => Bucket(i) >= SPAN - 1

(* C15 amended: a trailing bucket of fewer than 4 rows is aggregated like  *)
(* a full one, and for every row, of a partial bucket or not, zlema_4h is  *)
(* defined exactly when its bucket index is at least 7 (the lag) and       *)
(* upper_band_4h and lower_band_4h exactly when it is at least 22          *)
(* (lag + 16 - 1).                                                         *)
C15_OverlayWarmUp ==
    Overlaid => \A i \in RowIdx :
                   LET r == Iloc(df.rows, i)
                   IN  /\ IsNum(r.zlema_4h) <=> Bucket(i) >= Lag(SPAN)
                       /\ IsNum(r.upper_band_4h) <=> Bucket(i) >= Lag(SPAN) + SPAN - 1
                       /\ IsNum(r.lower_band_4h) <=> Bucket(i) >= Lag(SPAN) + SPAN - 1

\* a series whose last bucket is partial and carries all three overlay
\* values
C15_Witness ==
    /\ Overlaid
    /\ Len(df.rows) % GROUP_SIZE # 0
    /\ LET r == df.rows[Len(df.rows)]
       IN  IsNum(r.zlema_4h) /\ IsNum(r.upper_band_4h) /\ IsNum(r.lower_band_4h)

(* C16: wick-rejection-sell depends only on the candle: on every row       *)
(* wick_rejection_sell holds exactly when R = high - low > 0,              *)
(* R >= 0.5% of close, upper_wick / R >= 0.33, body / R >= 0.40,           *)
(* lower_wick / R <= 0.25 and close < open, whether or not upper_band is   *)
(* defined on that row.                                                    *)
C16_SellWickCandleOnly ==
    Done => \A i \in RowIdx :
        LET r == Iloc(df.rows, i)
        IN  wick_rejection_sell(r.open, r.high, r.low, r.close, r.upper_band)
               <=> WickRejectionSell(r.open, r.high, r.low, r.close)

\* apply_zones followed by evaluate_candles on the frame of the run, with
\* other parameter strings, gives the run's entry_signal and reason again
SameOutcome(p2, t2) ==
    LET alt == evaluate_candles(apply_zones(df, p2, t2), p2, t2)
    IN  \A i \in DOMAIN df.rows :
           /\ alt.rows[i].entry_signal = df.rows[i].entry_signal
           /\ alt.rows[i].reason = df.rows[i].reason

InvalidTrends == { <<"u","p">>, <<>> }

(* C17: phase and trend are case-insensitive and an invalid trend behaves  *)
(* as "sideways": apply_zones followed by evaluate_candles gives the same  *)
(* entry_signal and reason on every row for every letter-case variant of   *)
(* the phase or trend string, and for an invalid trend string the same as  *)
(* for trend "sideways".                                                   *)
C17_CaseInsensitive ==
    Done =>
       /\ \A p2 \in {phase, upper(phase), lower(phase)},
             t2 \in {trend, upper(trend), lower(trend)} : SameOutcome(p2, t2)
       /\ trend = S_sideways => \A t2 \in InvalidTrends : SameOutcome(phase, t2)

\* the run is on n flat candles at price 100 followed by the candle
\* open 100, close 103, high 103.5, low 96
FlatThenWick(n) ==
    /\ Len(df.rows) = n + 1
    /\ \A i \in 1 .. n :
          /\ df.rows[i].open = 10000 /\ df.rows[i].high = 10000
          /\ df.rows[i].low = 10000 /\ df.rows[i].close = 10000
    /\ df.rows[n + 1].open = 10000 /\ df.rows[n + 1].close = 10300
    /\ df.rows[n + 1].high = 10350 /\ df.rows[n + 1].low = 9600

LastRow == df.rows[Len(df.rows)]

\* the BUY reasons of the zone logic that contain "wick_rejection"
WickBuyReasons ==
    { "buy_zone_touch+wick_rejection",
      "buy_zone_touch+wick_rejection+strong_buy",
      "buy_zone_touch+morning_star+wick_rejection",
      "buy_zone_touch+morning_star+wick_rejection+strong_buy" }

(* C18 as stated: the full pipeline with phase BTR and trend bullish on 16 *)
(* flat candles at price 100 followed by the candle open 100, close 103,   *)
(* high 103.5, low 96 gives BUY on the last candle, with a reason that     *)
(* contains "wick_rejection".                                              *)
C18_AsStated ==
    (Done /\ phase = S_BTR /\ trend = S_bullish /\ FlatThenWick(SPAN)) =>
        (LastRow.entry_signal = "BUY" /\ LastRow.reason \in WickBuyReasons)

(* C18 amended: the full pipeline with phase BTR and trend bullish on n    *)
(* flat candles at price 100 followed by that candle gives BUY on the last *)
(* candle, with a reason that contains "wick_rejection", when n >= 22 (the *)
(* last row then has bands and zones); when n < 22, n = 16 included, the   *)
(* last row has no zones and is NONE with reason "no_conditions_met".      *)
C18_BuyAfterBandWarmUp ==
    (Done /\ phase = S_BTR /\ trend = S_bullish) =>
        \A n \in 0 .. (Len(df.rows) - 1) :
            FlatThenWick(n) =>
               IF n >= Lag(SPAN) + SPAN - 1
               THEN LastRow.entry_signal = "BUY" /\ LastRow.reason \in WickBuyReasons
               ELSE LastRow.entry_signal = NONE /\ LastRow.reason = "no_conditions_met"

\* the scenario after 22 flat candles: BUY on the candle
C18_Witness ==
    /\ Done /\ phase = S_BTR /\ trend = S_bullish
    /\ FlatThenWick(Lag(SPAN) + SPAN - 1)
    /\ LastRow.entry_signal = "BUY"

UnknownPhase == upper(strip(phase)) \notin {S_TTR, S_BTR, S_SIDEWAYS}

ZonesUndefined ==
    \A i \in DOMAIN df.rows :
        /\ df.rows[i].buy_zone_low = NaN /\ df.rows[i].buy_zone_high = NaN
        /\ df.rows[i].sell_zone_low = NaN /\ df.rows[i].sell_zone_high = NaN

SignalOnEveryRow ==
    \A i \in DOMAIN df.rows : df.rows[i].entry_signal \in {"BUY", "SELL", NONE}

\* the parts of C19 that the code does: zones undefined, and the evaluation
\* that follows gives a signal on every row
C19_ContinuesWithoutZones ==
    (UnknownPhase /\ pc \in {"zoned", "done"}) =>
        /\ ZonesUndefined
        /\ Done => SignalOnEveryRow

(* C19: when apply_zones is given an unrecognized phase string, the zones  *)
(* are left undefined, a warning is surfaced to the operator, and the      *)
(* following evaluate_candles call returns a signal for every row.         *)
C19_UnknownPhaseWarned ==
    (UnknownPhase /\ pc \in {"zoned", "done"}) =>
        /\ ZonesUndefined
        /\ apply_zones_warnings(df, phase, trend) # <<>>
        /\ Done => SignalOnEveryRow

\* this step is a call of get_symbol_data for s that returned a non-empty
\* series (the series it returns is the one it leaves in the cache)
ReturnsSeries(s) ==
    /\ pc = "analyzing" /\ todo # <<>> /\ Head(todo) = s
    /\ todo' = Tail(todo)
    /\ symbol_data'[s].rows # <<>>

InsideWindow(rows) == \A i \in DOMAIN rows : rows[i].open_time >= now - RetentionHours

\* the calls that stored a series (initial fetch, merge) leave only rows
\* inside the retention window
C20_StoredSeriesInsideWindow ==
    [][ \A s \in Symbols :
          (ReturnsSeries(s) /\ df_new'.rows # <<>>) => InsideWindow(symbol_data'[s].rows)
      ]_vars

(* C20: after every call of get_symbol_data that returns a non-empty       *)
(* series for a symbol (initial fetch, merge with new candles, or call     *)
(* with no new candles), the series held in the cache for that symbol has  *)
(* no row with open_time older than now minus the retention window.        *)
C20_CacheInsideWindow ==
    [][ \A s \in Symbols :
          ReturnsSeries(s) => InsideWindow(symbol_data'[s].rows)
      ]_vars

-----------------------------------------------------------------------------
(* Vocabulary of the claims about successive runs *)

\* this step is a pipeline run for s on the series the merge keeps, after an
\* earlier run for s (the series of that run is the one still in the cache)
RerunOf(s) ==
    /\ pc = "analyzing" /\ todo # <<>> /\ Head(todo) = s
    /\ todo' = Tail(todo)
    /\ symbol_data[s].rows # <<>>
    /\ symbol_data'[s].rows # <<>>

\* the rows of a run up to the overlay stage
OverlayRowsOf(frame) ==
    compute_4h_overlay(compute_adaptive_pct(compute_indicators(frame))).rows

\* the candles (by open_time) grouped with row i, i included
GroupTimes(rows, i) ==
    { rows[k].open_time : k \in { k \in DOMAIN rows : Bucket(k - 1) = Bucket(i - 1) } }

InFullBucket(rows, i) == GROUP_SIZE * (Bucket(i - 1) + 1) <= Len(rows)

OverlayTriple(r) == <<r.zlema_4h, r.upper_band_4h, r.lower_band_4h>>

(* C21: across successive pipeline runs on the series kept by the merge,   *)
(* every base candle that was in a full 4-row bucket in the previous run   *)
(* and is still in the series stays grouped with the same three candles    *)
(* and keeps the same overlay triple in the next run.                      *)
C21_FullBucketsStable ==
    [][ \A s \in Symbols :
          RerunOf(s) =>
             \A prev \in {OverlayRowsOf(symbol_data[s])} :
             \A next \in {OverlayRowsOf(symbol_data'[s])} :
                \A i \in DOMAIN prev, j \in DOMAIN next :
                   ( /\ prev[i].open_time = next[j].open_time
                     /\ InFullBucket(prev, i) ) =>
                        /\ GroupTimes(next, j) = GroupTimes(prev, i)
                        /\ OverlayTriple(next[j]) = OverlayTriple(prev[i])
      ]_vars

\* the alert handed over in this step
HandedAlert == notifier'[Len(notifier')]

(* C22: the last-signal memo entry of a symbol is only ever absent, BUY or *)
(* SELL; it changes only in a run that hands over an alert, and then to    *)
(* the signal of that alert, whether the delivery succeeded or failed; a   *)
(* run whose signal is NONE leaves it as it is and it never returns to     *)
(* absent.  So an alert never carries the signal the memo holds (the       *)
(* signal of the symbol's previous alert), and a run whose signal equals   *)
(* the memo, as the second BUY of BUY, NONE, BUY, hands over nothing.      *)
C22_MemoDiscipline ==
    [][ \A s \in Symbols :
          /\ last_signal'[s] \in {"absent", "BUY", "SELL"}
          /\ last_signal'[s] # last_signal[s] => Handed(s)
          /\ last_signal[s] # "absent" => last_signal'[s] # "absent"
          /\ (RunOf(s) /\ RunSignal = NONE) =>
                (last_signal'[s] = last_signal[s] /\ ~Handed(s))
          /\ Handed(s) =>
                /\ HandedAlert.signal # last_signal[s]
                /\ last_signal'[s] = HandedAlert.signal
          /\ (RunOf(s) /\ RunSignal = last_signal[s]) => ~Handed(s)
      ]_vars

\* an analysis of two coins: the alert of the first was not delivered and
\* its memo holds the signal all the same; the second repeated the signal
\* its memo held and no alert went out for it
C22_Witness ==
    /\ pc = "analyzing" /\ todo = <<>>
    /\ Len(results) = 2 /\ Len(notifier) = 1
    /\ notifier[1].symbol = results[1].symbol
    /\ ~notifier[1].delivered
    /\ last_signal[results[1].symbol] = notifier[1].signal
    /\ results[2].signal \in {"BUY", "SELL"}
    /\ last_signal[results[2].symbol] = results[2].signal

-----------------------------------------------------------------------------
\* the SELL pattern disjunction as evaluate_signal computes it
SellPatternOfCode(idx) ==
    LET r == Iloc(df.rows, idx)
    IN  \/ wick_rejection_sell(r.open, r.high, r.low, r.close, r.upper_band)
        \/ strong_sell(df.rows, idx)
        \/ is_evening_star(df.rows, idx)

(* C23: on no row of any series the BUY pattern disjunction                *)
(* (wick-rejection-buy, strong-buy, morning-star) and the SELL pattern     *)
(* disjunction (wick-rejection-sell, strong-sell, evening-star) hold       *)
(* together; so with trend sideways a row that the BUY-first order makes   *)
(* BUY has no SELL pattern and would not have been SELL.                   *)
C23_PatternsExclusive ==
    /\ \A i \in RowIdx :
          ~(BuyPattern(i) /\ (SellPattern(i) \/ SellPatternOfCode(i)))
    /\ (Done /\ trend = S_sideways) =>
          \A i \in RowIdx :
             Iloc(df.rows, i).entry_signal = "BUY" =>
                ~(SellPattern(i) \/ SellPatternOfCode(i))

\* a sideways run with a BUY row that is the third candle of a morning
\* star, with a red candle among the four rows before it
C23_Witness ==
    /\ Done /\ trend = S_sideways
    /\ \E i \in RowIdx :
          /\ Iloc(df.rows, i).entry_signal = "BUY"
          /\ is_morning_star(df.rows, i)
          /\ PrevClassified(i, "red", trend)

-----------------------------------------------------------------------------
(* Vocabulary of the claims about the fetch *)

Fetching == fetch.pc # "none"

Returned == fetch.pc = "returned"

Endpoints == 1 .. NumEndpoints

\* the endpoints are taken in list order, one after the other has failed
InListOrder ==
    \A e \in Endpoints :
        fetch.requests[e] > 0 => \A d \in 1 .. (e - 1) : d \in fetch.failed

(* C24: _fetch_impl always terminates and returns a series, possibly       *)
(* empty, never raising: it tries the endpoints in list order, each with   *)
(* at most 3 request attempts, returns the klines of the first endpoint    *)
(* that yields a valid non-empty list without asking a later endpoint, and *)
(* loads the CSV fallback, once, only after every endpoint has failed.     *)
C24_FetchTerminates ==
    /\ [](Fetching =>
            /\ \A e \in Endpoints : fetch.requests[e] <= retries
            /\ InListOrder
            /\ fetch.csv_loads <= 1
            /\ fetch.csv_loads = 1 => fetch.failed = Endpoints
            /\ fetch.result = "klines" =>
                  /\ fetch.csv_loads = 0
                  /\ fetch.endpoint \notin fetch.failed
                  /\ \A e \in Endpoints : e > fetch.endpoint => fetch.requests[e] = 0
            /\ Returned <=> fetch.result \in {"klines", "csv", "empty"})
    /\ (Fetching ~> Returned)

\* a call that used all three attempts on each of the three endpoints and
\* returned the rows of the CSV fallback
C24_Witness ==
    /\ Fetching /\ Returned
    /\ \A e \in Endpoints : fetch.requests[e] = retries
    /\ fetch.result = "csv"

=============================================================================
